---- MODULE Spec2Model ----
(***************************************************************************)
(* Retrieval subsystem of healthexplain-pro: the sentence chunker of       *)
(* src/utils/pdf_processor.py and the VectorStore of                       *)
(* src/utils/vector_store.py (add_texts, similarity_search, save, load).   *)
(* Strings handled by the chunker are sequences of one-character strings;  *)
(* texts handled by the store are opaque names with a fixed embedding per  *)
(* embedding model.                                                        *)
(***************************************************************************)
EXTENDS Integers, Sequences, FiniteSets, TLC

VARIABLES text, chunk_size, chunks, text_chunks, pc,
          model, index, documents, disk, loaded, last

chunkVars == <<text, chunk_size, chunks, text_chunks, pc>>
storeVars == <<model, index, documents, disk, loaded, last>>
vars == <<text, chunk_size, chunks, text_chunks, pc,
          model, index, documents, disk, loaded, last>>

(***************************************************************************)
(* Bounds of the model.                                                    *)
(***************************************************************************)
MaxLen == 8
MaxSize == 4
MaxBatch == 2
MaxTotal == 3
MaxK == 4

Min(a, b) == IF a <= b THEN a ELSE b

(***************************************************************************)
(* pdf_processor.py                                                        *)
(***************************************************************************)
\* Characters of a page: a letter, a sentence end, and the line break that
\* page.get_text() puts between lines.
Alphabet == {"a", ".", "\n"}

\* Characters matched by \s and removed by str.strip().
IsSpace(c) == c \in {" ", "\n", "\t", "\r"}

\* Characters of the lookbehind class [.!?].
IsPunct(c) == c \in {".", "!", "?"}

RECURSIVE StringsOfLen(_)
StringsOfLen(n) ==
    IF n = 0 THEN {<<>>}
    ELSE {Append(s, c) : s \in StringsOfLen(n - 1), c \in Alphabet}

\* Page texts that page.get_text() may hand to the chunker.
PageTexts == UNION {StringsOfLen(n) : n \in 0..MaxLen}

\* chunk_size arguments, a negative one included (extract_text_from_pdf
\* passes 500; the sizes here are scaled to texts of at most MaxLen
\* characters).
TargetSizes == (0 - 1)..MaxSize

RECURSIVE LStrip(_)
LStrip(s) ==
    IF s = <<>> THEN <<>>
    ELSE IF IsSpace(Head(s)) THEN LStrip(Tail(s))
    ELSE s

RECURSIVE RStrip(_)
RStrip(s) ==
    IF s = <<>> THEN <<>>
    ELSE IF IsSpace(s[Len(s)]) THEN RStrip(SubSeq(s, 1, Len(s) - 1))
    ELSE s

\* str.strip()
Strip(s) == RStrip(LStrip(s))

\* re.sub(r'\s+', ' ', text): every maximal whitespace run becomes one space.
RECURSIVE CollapseWs(_)
CollapseWs(s) ==
    IF s = <<>> THEN <<>>
    ELSE IF IsSpace(Head(s)) THEN <<" ">> \o CollapseWs(LStrip(s))
    ELSE <<Head(s)>> \o CollapseWs(Tail(s))

\* re.sub(r'\s+', ' ', text).strip()
CleanText(s) == Strip(CollapseWs(s))

\* First position at or after i that does not hold whitespace.
RECURSIVE SkipSpaces(_, _)
SkipSpaces(s, i) ==
    IF i <= Len(s) /\ IsSpace(s[i]) THEN SkipSpaces(s, i + 1) ELSE i

\* re.split(r'(?<=[.!?])\s+', text) scanning from position i with the piece
\* cur collected so far: a whitespace run is a separator exactly when the
\* character before its first character is one of . ! ?
RECURSIVE ReSplitFrom(_, _, _)
ReSplitFrom(s, i, cur) ==
    IF i > Len(s) THEN <<cur>>
    ELSE IF IsSpace(s[i]) /\ i > 1 /\ IsPunct(s[i - 1])
         THEN <<cur>> \o ReSplitFrom(s, SkipSpaces(s, i), <<>>)
         ELSE ReSplitFrom(s, i + 1, Append(cur, s[i]))

ReSplit(s) == ReSplitFrom(s, 1, <<>>)

\* The loop test, were the trailing space of current_chunk not counted.
FitsOffByOne(current_chunk, sentence, size) ==
    Len(current_chunk) + Len(sentence) <= size + 1

\* The test of the loop body of split_into_chunks.
Fits(current_chunk, sentence, size) ==
    Len(current_chunk) + Len(sentence) <= size

\* The loop body, were the running chunk not closed before a new one starts.
SplitStepDropping(st, sentence, size) ==
    IF Fits(st.current_chunk, sentence, size)
    THEN [chunks |-> st.chunks,
          current_chunk |-> st.current_chunk \o sentence \o <<" ">>]
    ELSE [chunks |-> st.chunks, current_chunk |-> sentence \o <<" ">>]

\* One iteration of the loop of split_into_chunks on the state
\* st = [chunks, current_chunk].
SplitStep(st, sentence, size) ==
    IF Fits(st.current_chunk, sentence, size)
    THEN [chunks |-> st.chunks,
          current_chunk |-> st.current_chunk \o sentence \o <<" ">>]
    ELSE [chunks |-> IF st.current_chunk # <<>>
                     THEN Append(st.chunks, Strip(st.current_chunk))
                     ELSE st.chunks,
          current_chunk |-> sentence \o <<" ">>]

RECURSIVE SplitLoop(_, _, _)
SplitLoop(st, sentences, size) ==
    IF sentences = <<>> THEN st
    ELSE SplitLoop(SplitStep(st, Head(sentences), size), Tail(sentences), size)

split_into_chunks(s, size) ==
    LET st == SplitLoop([chunks |-> <<>>, current_chunk |-> <<>>],
                        ReSplit(s), size)
    IN  IF st.current_chunk # <<>>
        THEN Append(st.chunks, Strip(st.current_chunk))
        ELSE st.chunks

\* ' '.join(parts)
RECURSIVE JoinSp(_)
JoinSp(parts) ==
    IF parts = <<>> THEN <<>>
    ELSE IF Len(parts) = 1 THEN parts[1]
    ELSE parts[1] \o <<" ">> \o JoinSp(Tail(parts))

\* The sentences of all chunks, in order.
RECURSIVE SentencesOf(_)
SentencesOf(cs) ==
    IF cs = <<>> THEN <<>> ELSE ReSplit(Head(cs)) \o SentencesOf(Tail(cs))

(***************************************************************************)
(* vector_store.py                                                         *)
(***************************************************************************)
ModelNames == {"all-MiniLM-L6-v2", "other-model"}
DefaultModel == "all-MiniLM-L6-v2"

Texts == {"t1", "t2"}
Queries == {"t1", "q"}
Metas == {"src"}
EmptyDict == "{}"

\* model.encode(texts, normalize_embeddings=True) for one text: a unit
\* vector that depends on the model and on the text.
Encode(m, t) ==
    IF m = "all-MiniLM-L6-v2"
    THEN CASE t = "t1" -> <<1, 0>>
           [] t = "t2" -> <<0 - 1, 0>>
           [] OTHER    -> <<0, 1>>
    ELSE CASE t = "t1" -> <<0, 1>>
           [] t = "t2" -> <<0, 0 - 1>>
           [] OTHER    -> <<1, 0>>

\* Inner product, the metric of faiss.IndexFlatIP.
Dot(u, v) == u[1] * v[1] + u[2] * v[2]

\* Document(text=text, metadata=meta)
Document(t, meta) == [text |-> t, metadata |-> meta]

\* VectorStore.__init__
NewStore(m) == [model |-> m, index |-> <<>>, documents |-> <<>>]

\* zip(texts, metadatas) stops at the shorter argument.
Zip(texts, metadatas) ==
    [i \in 1..Min(Len(texts), Len(metadatas)) |->
        Document(texts[i], metadatas[i])]

RECURSIVE SeqsOfLen(_, _)
SeqsOfLen(S, n) ==
    IF n = 0 THEN {<<>>}
    ELSE {Append(s, x) : s \in SeqsOfLen(S, n - 1), x \in S}

SeqsUpTo(S, n) == UNION {SeqsOfLen(S, j) : j \in 0..n}

\* The row, among those not yet taken, that an exact inner-product scan
\* reports next: highest inner product, the lowest row on equal scores.
BestRow(rows, q, taken) ==
    CHOOSE i \in (1..Len(rows)) \ taken :
        \A j \in (1..Len(rows)) \ taken :
            \/ Dot(rows[i], q) > Dot(rows[j], q)
            \/ Dot(rows[i], q) = Dot(rows[j], q) /\ i <= j

RECURSIVE TopKFrom(_, _, _, _)
TopKFrom(rows, q, k, found) ==
    IF Len(found) = k THEN found
    ELSE TopKFrom(rows, q, k,
                  Append(found,
                         BestRow(rows, q, {found[n] : n \in 1..Len(found)})))

\* index.search(query_embedding, k) for 0 < k <= ntotal: the rows of the k
\* best inner products, best first.
IndexSearch(rows, q, k) == TopKFrom(rows, q, k, <<>>)

Returned(v) == [outcome |-> "return", value |-> v]
Raised(e) == [outcome |-> e, value |-> <<>>]

\* The outcomes of similarity_search(query, k) on a store.  faiss's search
\* wrapper raises on k < 0 and, depending on the faiss release, raises or
\* returns no rows on k = 0.
similarity_search(store, query, k) ==
    IF Len(store.index) = 0 THEN {Returned(<<>>)}
    ELSE LET kk == Min(k, Len(store.index))
         IN  IF kk < 0 THEN {Raised("FaissError")}
             ELSE IF kk = 0 THEN {Raised("FaissError"), Returned(<<>>)}
             ELSE LET ids == IndexSearch(store.index,
                                         Encode(store.model, query), kk)
                  IN  IF \E n \in 1..kk : ids[n] > Len(store.documents)
                      THEN {Raised("IndexError")}
                      ELSE {Returned([n \in 1..kk |->
                                         store.documents[ids[n]]])}

Self == [model |-> model, index |-> index, documents |-> documents]

NoArgs == [texts |-> <<>>, given |-> FALSE, metadatas |-> <<>>,
           query |-> "", k |-> 0, model_name |-> ""]

Before == [index |-> index, documents |-> documents]

Call(op, args, res) ==
    [op |-> op, args |-> args, outcome |-> res.outcome, value |-> res.value,
     before |-> Before]

\* add_texts(texts, metadatas); given = FALSE is metadatas=None.
add_texts(texts, given, metadatas) ==
    /\ Len(index) + Len(texts) <= MaxTotal
    /\ IF texts = <<>>
       THEN UNCHANGED <<index, documents>>
       ELSE LET metas == IF given THEN metadatas
                         ELSE [i \in 1..Len(texts) |-> EmptyDict]
                docs == Zip(texts, metas)
                embeddings == [i \in 1..Len(texts) |-> Encode(model, texts[i])]
            IN  /\ index' = index \o embeddings
                /\ documents' = documents \o docs
    /\ last' = Call("add_texts",
                    [NoArgs EXCEPT !.texts = texts, !.given = given,
                                   !.metadatas = metadatas],
                    Returned(<<>>))
    /\ UNCHANGED <<model, disk, loaded, chunkVars>>

AddTexts ==
    \E texts \in SeqsUpTo(Texts, MaxBatch) :
        \/ add_texts(texts, FALSE, <<>>)
        \/ \E metadatas \in SeqsUpTo(Metas, MaxBatch) :
               add_texts(texts, TRUE, metadatas)

SimilaritySearch ==
    \E query \in Queries, k \in (0 - 1)..MaxK :
        \E res \in similarity_search(Self, query, k) :
            /\ last' = Call("similarity_search",
                            [NoArgs EXCEPT !.query = query, !.k = k], res)
            /\ UNCHANGED <<model, index, documents, disk, loaded, chunkVars>>

Artifact(data) == [state |-> "ok", data |-> data]
Missing == [state |-> "missing", data |-> <<>>]
Malformed == [state |-> "malformed", data |-> <<>>]

\* save(directory): write_index, then open(documents.pkl, "wb"), then
\* pickle.dump.  The call returns, or open raises after index.faiss was
\* written, or pickle.dump raises after documents.pkl was truncated.
save(how) ==
    /\ disk' = CASE how = "return" ->
                      [index |-> Artifact(index),
                       documents |-> Artifact(documents)]
                 [] how = "OSError" ->
                      [disk EXCEPT !.index = Artifact(index)]
                 [] OTHER ->
                      [index |-> Artifact(index), documents |-> Malformed]
    /\ last' = Call("save", NoArgs, [outcome |-> how, value |-> <<>>])
    /\ UNCHANGED <<model, index, documents, loaded, chunkVars>>

Save == \E how \in {"return", "OSError", "PicklingError"} : save(how)

\* load(directory, model_name): the store it returns, or the exception of
\* read_index, open or pickle.load.
load(model_name) ==
    /\ IF disk.index.state # "ok"
       THEN /\ loaded' = <<>>
            /\ last' = Call("load", [NoArgs EXCEPT !.model_name = model_name],
                            Raised("FaissError"))
       ELSE IF disk.documents.state # "ok"
       THEN /\ loaded' = <<>>
            /\ last' = Call("load", [NoArgs EXCEPT !.model_name = model_name],
                            Raised(IF disk.documents.state = "missing"
                                   THEN "FileNotFoundError"
                                   ELSE "UnpicklingError"))
       ELSE /\ loaded' = <<[NewStore(model_name) EXCEPT
                               !.index = disk.index.data,
                               !.documents = disk.documents.data]>>
            /\ last' = Call("load", [NoArgs EXCEPT !.model_name = model_name],
                            Returned(<<>>))
    /\ UNCHANGED <<model, index, documents, disk, chunkVars>>

Load == \E model_name \in ModelNames : load(model_name)

Called(op) == last.op = op

\* C1: after any sequence of add_texts calls, whatever the metadatas
\* argument, the number of stored vectors (index.ntotal) equals the number
\* of stored Documents.
IndexInvariant == Len(index) = Len(documents)

\* C2: add_texts with len(texts) # len(metadatas) and similarity_search with
\* a negative k end in an InvalidArgument error and leave the stored vectors
\* and Documents as they were.
InvalidArgumentsRejected ==
    /\ (/\ Called("add_texts")
        /\ last.args.given
        /\ Len(last.args.texts) # Len(last.args.metadatas))
       => /\ last.outcome = "InvalidArgument"
          /\ index = last.before.index
          /\ documents = last.before.documents
    /\ (Called("similarity_search") /\ last.args.k < 0)
       => /\ last.outcome = "InvalidArgument"
          /\ index = last.before.index
          /\ documents = last.before.documents

Injective(f) == \A a, b \in DOMAIN f : f[a] = f[b] => a = b

\* C6: for every k >= 0 similarity_search returns normally with exactly
\* min(k, ntotal) Documents, each a stored Document at a distinct position;
\* the result on a store without documents is empty.  Stated for the calls
\* whose outcome the source decides: k >= 1, and k = 0 on an empty index
\* (k = 0 on a populated index is answered by faiss, see similarity_search).
SearchClamp ==
    (/\ Called("similarity_search")
     /\ last.args.k >= 0
     /\ (last.args.k >= 1 \/ Len(index) = 0))
    => /\ last.outcome = "return"
       /\ Len(last.value) = Min(last.args.k, Len(index))
       /\ \E pos \in [1..Len(last.value) -> 1..Len(documents)] :
             /\ Injective(pos)
             /\ \A n \in 1..Len(last.value) : last.value[n] = documents[pos[n]]
       /\ (Len(documents) = 0 => last.value = <<>>)

\* The rankings of k distinct rows by descending inner product with qv in
\* which, on equal inner products, the earlier row comes first and is the
\* one kept.
IsRanking(ids, rows, qv, k) ==
    /\ Len(ids) = k
    /\ Injective(ids)
    /\ \A n \in 1..(k - 1) :
          \/ Dot(rows[ids[n]], qv) > Dot(rows[ids[n + 1]], qv)
          \/ /\ Dot(rows[ids[n]], qv) = Dot(rows[ids[n + 1]], qv)
             /\ ids[n] < ids[n + 1]
    /\ \A j \in 1..Len(rows) :
          (\A n \in 1..k : ids[n] # j)
          => \A n \in 1..k :
                \/ Dot(rows[ids[n]], qv) > Dot(rows[j], qv)
                \/ Dot(rows[ids[n]], qv) = Dot(rows[j], qv) /\ ids[n] < j

\* C7: similarity_search returns the Documents of the k stored vectors with
\* the highest inner product with the query vector, by descending
\* similarity, the earlier inserted first (and kept) on equal similarity.
SearchRanking ==
    (Called("similarity_search") /\ last.args.k >= 1 /\ Len(index) >= 1)
    => LET k == Min(last.args.k, Len(index))
           qv == Encode(model, last.args.query)
       IN  /\ last.outcome = "return"
           /\ \E ids \in [1..k -> 1..Len(index)] :
                 /\ IsRanking(ids, index, qv, k)
                 /\ Len(last.value) = k
                 /\ \A n \in 1..k :
                       Encode(model, last.value[n].text) = index[ids[n]]

\* C8: for a populated store x (one Document per vector) built with any
\* model name, load(save(x)) answers every query and k as x does, and embeds
\* queries with the model of x.
RoundTrip ==
    (/\ Called("load")
     /\ last.outcome = "return"
     /\ Len(index) >= 1
     /\ Len(documents) = Len(index)
     /\ disk = [index |-> Artifact(index), documents |-> Artifact(documents)])
    => /\ loaded # <<>>
       /\ loaded[1].model = model
       /\ \A query \in Queries, k \in (0 - 1)..MaxK :
             similarity_search(loaded[1], query, k)
                 = similarity_search(Self, query, k)

\* C9: when a save call has ended, also one that failed between its two
\* writes, the location never holds the vector artifact of one store state
\* together with the Document artifact of another.
SaveConsistent ==
    (/\ Called("save")
     /\ disk.index.state = "ok"
     /\ disk.documents.state = "ok")
    => (disk.index.data = index <=> disk.documents.data = documents)

Unloadable ==
    \/ disk.index.state # "ok"
    \/ disk.documents.state # "ok"
    \/ Len(disk.index.data) # Len(disk.documents.data)

\* C10: load fails with a CorruptIndexError and returns no store whenever an
\* artifact is missing or malformed or the artifacts are mismatched; load
\* never returns a store whose vector count differs from its Document count.
LoadRejectsCorrupt ==
    Called("load")
    => /\ Unloadable => (last.outcome = "CorruptIndexError" /\ loaded = <<>>)
       /\ \A n \in 1..Len(loaded) :
             Len(loaded[n].index) = Len(loaded[n].documents)

\* The store as app.py constructs it, untouched.
StoreIdle ==
    /\ model = NewStore(DefaultModel).model
    /\ index = NewStore(DefaultModel).index
    /\ documents = NewStore(DefaultModel).documents
    /\ disk = [index |-> Missing, documents |-> Missing]
    /\ loaded = <<>>
    /\ last = Call("init", NoArgs, Returned(<<>>))

ChunkerIdle ==
    /\ text = <<>>
    /\ chunk_size = 0
    /\ chunks = <<>>
    /\ text_chunks = <<>>
    /\ pc = "idle"

Init ==
    /\ ChunkerIdle
    /\ \E m \in ModelNames :
           /\ model = NewStore(m).model
           /\ index = NewStore(m).index
           /\ documents = NewStore(m).documents
    /\ disk = [index |-> Missing, documents |-> Missing]
    /\ loaded = <<>>
    /\ last = Call("init", NoArgs, Returned(<<>>))

Next == AddTexts \/ SimilaritySearch \/ Save \/ Load

Spec == Init /\ [][Next]_vars

\* extract_text_from_pdf, one page: get_text, clean, split, extend.
GetText ==
    /\ pc = "open"
    /\ \E t \in PageTexts : text' = t
    /\ pc' = "page"
    /\ UNCHANGED <<chunk_size, chunks, text_chunks, storeVars>>

Clean ==
    /\ pc = "page"
    /\ text' = CleanText(text)
    /\ pc' = "cleaned"
    /\ UNCHANGED <<chunk_size, chunks, text_chunks, storeVars>>

Split ==
    /\ pc = "cleaned"
    /\ chunks' = split_into_chunks(text, chunk_size)
    /\ pc' = "chunked"
    /\ UNCHANGED <<text, chunk_size, text_chunks, storeVars>>

Extend ==
    /\ pc = "chunked"
    /\ text_chunks' = text_chunks \o chunks
    /\ pc' = "closed"
    /\ UNCHANGED <<text, chunk_size, chunks, storeVars>>

InitChunk ==
    /\ text = <<>>
    /\ chunk_size \in TargetSizes
    /\ chunks = <<>>
    /\ text_chunks = <<>>
    /\ pc = "open"
    /\ StoreIdle

NextChunk == GetText \/ Clean \/ Split \/ Extend

SpecChunk == InitChunk /\ [][NextChunk]_vars

\* C3: the chunker never outputs an empty or whitespace-only chunk; an
\* empty or all-whitespace page gives the empty chunk sequence.
ChunkerDone == pc \in {"chunked", "closed"}

NoEmptyChunk ==
    ChunkerDone =>
        /\ \A i \in 1..Len(chunks) : Strip(chunks[i]) # <<>>
        /\ (text = <<>> => chunks = <<>>)

\* C4: every chunk has length <= target_size, except a chunk that is one
\* single sentence longer than target_size.
ChunkBound ==
    ChunkerDone =>
        \A i \in 1..Len(chunks) :
            \/ Len(chunks[i]) <= chunk_size
            \/ /\ Len(chunks[i]) > chunk_size
               /\ Len(ReSplit(chunks[i])) = 1
               /\ chunks[i] \in {ReSplit(text)[j] : j \in 1..Len(ReSplit(text))}

ChunkBoundWitness ==
    /\ ChunkerDone
    /\ Len(chunks) >= 2
    /\ \E i \in 1..Len(chunks) : Len(chunks[i]) > chunk_size
    /\ \E i \in 1..Len(chunks) :
          Len(ReSplit(chunks[i])) >= 2 /\ Len(chunks[i]) <= chunk_size

\* C5: the chunks joined by single spaces are the whitespace-normalized
\* input, and the sentences of the chunks are the sentences of the input,
\* each once and in order.
ChunkCompleteness ==
    ChunkerDone =>
        /\ JoinSp(chunks) = text
        /\ SentencesOf(chunks) = ReSplit(text)

ChunkCompletenessWitness ==
    /\ ChunkerDone
    /\ Len(chunks) >= 2
    /\ Len(ReSplit(text)) >= 3
    /\ \E i \in 1..Len(chunks) : Len(ReSplit(chunks[i])) >= 2

====
